---- MODULE Spec2Model ----
(***************************************************************************)
(* pdfsvc: an HTTP front for an external HTML-to-PDF renderer.             *)
(*                                                                         *)
(* The model follows src/pdfsvc.go: the body spooler                       *)
(* (buffering.handler.ServeHTTP), the entry point (handler.ServeHTTP) and  *)
(* the conversion gate / renderer invoker (handler.convert).  Every        *)
(* request is served on its own goroutine; the two gates (buffered         *)
(* channels) are the only shared state.                                    *)
(***************************************************************************)
EXTENDS Integers, Sequences, FiniteSets, TLC

----------------------------------------------------------------------------
(* Bounds of the model *)

\* number of concurrently served requests
NReq == 2
\* largest -n flag value tried (the flag may also be 0, which main raises to 1)
MaxProcs == 1
\* largest file limit tried with WithFileLimit (0 leaves the gate nil)
MaxFiles == 1
\* largest "short" body / declared length
MaxShort == 3
\* length of the one long body: more than any limit plus the probe
LongBody == 37
\* the positive duration used for -d and for the queue wait (0 = none)
Dur == 1
\* the small sizes used with WithMaxSize / WithBufSize (0 = unlimited / off)
SmallMax == 2
SmallBuf == 1
\* longest wait at the conversion gate that is counted
MaxWait == 1

(* Program constants *)

\* const DefaultBufSize = 32 * 1024
DefaultBufSize == 32768
\* buffering.WithMaxSize(1<<20) in main
MainMaxSize == 1048576
\* io.CopyN(ioutil.Discard, r.Body, 32)
ProbeSize == 32
\* Procs: 3 in main's defaults
DefaultProcs == 3

Reqs == 1..NReq

Min(a, b) == IF a < b THEN a ELSE b

----------------------------------------------------------------------------
(* Configuration: buffering options and command-line flags *)

\* bh := &handler{Handler: h, bufSize: DefaultBufSize}; gateCap = 0 stands
\* for gate == nil.  Handler names the wrapped handler: "pdfsvc" is the
\* service's own handler, "stub" any other http.Handler (as in the test).
Handler(down) ==
    [Handler |-> down, maxSize |-> 0, bufSize |-> DefaultBufSize, gateCap |-> 0, wait |-> 0]

WithMaxSize(hh, size) == [hh EXCEPT !.maxSize = size]

WithBufSize(hh, size) == [hh EXCEPT !.bufSize = size]

WithFileLimit(hh, maxFiles, wait) ==
    IF maxFiles < 1 THEN hh
    ELSE [hh EXCEPT !.gateCap = maxFiles, !.wait = wait]

\* main: if args.Procs <= 0 { args.Procs = 1 }
NormProcs(n) == IF n <= 0 THEN 1 ELSE n

\* h := &handler{gate: make(chan struct{}, args.Procs), d: ..., token: ...}
MainHandler(procs, d, token) ==
    [gateCap |-> NormProcs(procs), d |-> d, token |-> token]

\* the library on its own, around a stub handler, with small sizes: every
\* maximum and threshold without a file limit, and every maximum and wait
\* with one
LibraryConfigs ==
    {<<WithBufSize(WithMaxSize(Handler("stub"), ms), bs), MainHandler(DefaultProcs, 0, <<>>)>> :
        ms \in {0, SmallMax}, bs \in {0, SmallBuf}} \cup
    {<<WithFileLimit(WithBufSize(WithMaxSize(Handler("stub"), ms), SmallBuf), mf, w),
       MainHandler(DefaultProcs, 0, <<>>)>> :
        ms \in {0, SmallMax}, mf \in 1..MaxFiles, w \in {0, Dur}}

\* the service as main wires it: buffering.Handler(h, buffering.WithMaxSize(1<<20))
ServiceConfigs ==
    {<<WithMaxSize(Handler("pdfsvc"), MainMaxSize), MainHandler(n, d, t)>> :
        n \in 0..MaxProcs, d \in {0, Dur}, t \in {<<>>, <<"secret">>}}

\* the service behind a spooler with a file limit: both gates at work
GatedConfigs ==
    {<<WithFileLimit(WithBufSize(Handler("pdfsvc"), 0), mf, w), MainHandler(n, Dur, <<"secret">>)>> :
        mf \in 1..MaxFiles, w \in {0, Dur}, n \in 1..MaxProcs}

Configs == LibraryConfigs \cup ServiceConfigs \cup GatedConfigs

\* the configurations the progress properties are checked under: the service
\* behind a file limit (both gates, a timeout), the service as main wires it
\* without a timeout, and the library with a file limit and no wait budget
LiveConfigs ==
    {<<WithFileLimit(WithBufSize(Handler("pdfsvc"), 0), MaxFiles, Dur),
       MainHandler(MaxProcs, Dur, <<"secret">>)>>} \cup
    {<<WithMaxSize(Handler("pdfsvc"), MainMaxSize), MainHandler(MaxProcs, 0, <<"secret">>)>>} \cup
    {<<WithFileLimit(WithBufSize(WithMaxSize(Handler("stub"), SmallMax), SmallBuf), MaxFiles, 0),
       MainHandler(DefaultProcs, 0, <<>>)>>}

----------------------------------------------------------------------------
(* Requests *)

\* the body with n bytes; byte i has value i, so order and position show
Body(n) == [i \in 1..n |-> i % 256]

\* a request: method, Authorization and Content-Type headers, ContentLength
\* (-1 = unknown), and the body source: the bytes it yields and how it ends
\* (a clean EOF or a read error).  A header value is the sequence of its
\* pieces (<<>> is the empty string), so that a prefix can be tested and cut.
Request(m, a, ct, cl, n, e) ==
    [method |-> m, authz |-> a, ctype |-> ct, cl |-> cl, data |-> Body(n), end |-> e]

BodyLens == (1..MaxShort) \cup {LongBody}
DeclLens == (-1)..MaxShort

\* requests that differ in their headers, with one short body
HeaderShapes ==
    {Request(m, a, ct, 1, 1, "EOF") :
        m \in {"POST", "GET"},
        a \in {<<>>, <<"Bearer ", "secret">>, <<"Bearer ", "wrong">>, <<"secret">>},
        ct \in {<<"text/html", "; charset=utf-8">>, <<"text/plain">>}}

\* requests that differ in declared and actual body, with good headers
BodyShapes ==
    {Request("POST", <<"Bearer ", "secret">>, <<"text/html">>, cl, n, e) :
        cl \in DeclLens, n \in BodyLens, e \in {"EOF", "ERR"}}

\* requests with good headers and a body that fits its declared length n
\* (-1: unknown, a body of one byte)
GoodRequest(n) ==
    Request("POST", <<"Bearer ", "secret">>, <<"text/html">>, n, IF n < 0 THEN 1 ELSE n, "EOF")

\* the requests tried: every body against the library; every header against
\* the service as main wires it, and a body of unknown length and an empty
\* one besides; good requests against the service behind a file limit
Shapes(hh) ==
    IF hh.Handler = "stub" THEN BodyShapes
    ELSE IF hh.gateCap = 0 THEN HeaderShapes \cup {GoodRequest(-1), GoodRequest(0)}
    ELSE {GoodRequest(n) : n \in (-1)..1}

NoReq == [method |-> "", authz |-> <<>>, ctype |-> <<>>, cl |-> 0, data |-> <<>>, end |-> "EOF"]

----------------------------------------------------------------------------
(* State *)

VARIABLES
    bh,        \* the buffering handler (options applied)
    h,         \* the pdfsvc handler main builds from the flags
    pc,        \* pc[r]: where request r's goroutine is
    req,       \* req[r]: the request as received
    ctx,       \* ctx[r]: err of r.Context(): "live", "canceled", "deadline"
    fileGate,  \* len(bh.gate): tokens in the disk-slot channel
    sAcq,      \* sAcq[r]: disk-slot tokens r has sent into bh.gate
    sRel,      \* sRel[r]: disk-slot tokens r has received back from bh.gate
    file,      \* file[r]: r's temp file handle: "none", "open", "closed"
    spool,     \* spool[r]: the storage: kind, bytes written, read/write offset
    rpos,      \* rpos[r]: bytes read so far from r.Body
    defers,    \* defers[r]: deferred calls of buffering's ServeHTTP, next first
    status,    \* status[r]: status code written to the response, 0 = none yet
    panicked,  \* panicked[r]: the downstream handler panicked
    header,    \* header[r]: the header the service's handler has set on the response
    downCalls, \* downCalls[r]: invocations of the downstream handler
    r2,        \* r2[r]: the request handed downstream; body = what it reads
    convGate,  \* len(h.gate): tokens in the conversion channel
    pAcq,      \* pAcq[r]: conversion permits r has sent into h.gate
    pRel,      \* pRel[r]: conversion permits r has received back
    cctx,      \* cctx[r]: err of convert's WithTimeout context, "none" = not derived
    proc,      \* proc[r]: the renderer subprocess of r
    cdefers,   \* cdefers[r]: deferred calls of convert, next first
    cerr,      \* cerr[r]: the error convert returns ("" = not returned yet)
    cause,     \* cause[r]: what made the conversion fail (history)
    waited,    \* waited[r]: time r has waited at the conversion gate in this call
    ran        \* ran[r]: time since convert's WithTimeout set its timer

spoolVars == <<fileGate, sAcq, sRel, file, spool, rpos, defers>>
downVars == <<downCalls, r2>>
convVars == <<convGate, pAcq, pRel, cctx, proc, cdefers, cerr, cause, waited, ran>>
vars == <<bh, h, pc, req, ctx, status, panicked, header, spoolVars, downVars, convVars>>

NoSpool == [kind |-> "none", data |-> <<>>, off |-> 0]
NoR2 == [method |-> "", authz |-> <<>>, ctype |-> <<>>, cl |-> 0, body |-> <<>>]

\* the state before any request has arrived, under one of the configurations cs
InitWith(cs) ==
    /\ \E c \in cs : bh = c[1] /\ h = c[2]
    /\ pc = [r \in Reqs |-> "new"]
    /\ req = [r \in Reqs |-> NoReq]
    /\ ctx = [r \in Reqs |-> "live"]
    /\ fileGate = 0
    /\ sAcq = [r \in Reqs |-> 0]
    /\ sRel = [r \in Reqs |-> 0]
    /\ file = [r \in Reqs |-> "none"]
    /\ spool = [r \in Reqs |-> NoSpool]
    /\ rpos = [r \in Reqs |-> 0]
    /\ defers = [r \in Reqs |-> <<>>]
    /\ status = [r \in Reqs |-> 0]
    /\ panicked = [r \in Reqs |-> FALSE]
    /\ header = [r \in Reqs |-> ""]
    /\ downCalls = [r \in Reqs |-> 0]
    /\ r2 = [r \in Reqs |-> NoR2]
    /\ convGate = 0
    /\ pAcq = [r \in Reqs |-> 0]
    /\ pRel = [r \in Reqs |-> 0]
    /\ cctx = [r \in Reqs |-> "none"]
    /\ proc = [r \in Reqs |-> "none"]
    /\ cdefers = [r \in Reqs |-> <<>>]
    /\ cerr = [r \in Reqs |-> ""]
    /\ cause = [r \in Reqs |-> "none"]
    /\ waited = [r \in Reqs |-> 0]
    /\ ran = [r \in Reqs |-> 0]

Init == InitWith(Configs)

----------------------------------------------------------------------------
(* Byte streams *)

\* what is left to read of a source after pos bytes were read
Avail(src, pos) == Len(src.data) - pos

\* io.CopyN(dst, src, n) from position pos, the destination accepting every
\* write: copies min(n, what is left); err is nil when n bytes were written,
\* else how the source ended
CopyN(src, pos, n) ==
    LET k == Min(n, Avail(src, pos))
    IN [written |-> k,
        bytes |-> SubSeq(src.data, pos + 1, pos + k),
        err |-> IF k = n THEN "nil" ELSE src.end]

\* io.Copy(dst, src): copies until the source ends; EOF is not an error
Copy(src, pos) ==
    LET k == Avail(src, pos)
    IN [written |-> k,
        bytes |-> SubSeq(src.data, pos + 1, pos + k),
        err |-> IF src.end = "EOF" THEN "nil" ELSE src.end]

\* Write on the storage: bytes land at the offset, which moves past them
Write(sp, bytes) ==
    [sp EXCEPT !.data = SubSeq(sp.data, 1, sp.off) \o bytes,
               !.off = sp.off + Len(bytes)]

\* f.Seek(0, io.SeekStart)
SeekStart(sp) == [sp EXCEPT !.off = 0]

\* what a reader of the storage gets: the bytes from the offset on.  A
\* bytes.Buffer reads from its start whatever was written to it.
ReadAll(sp) ==
    IF sp.kind = "mem" THEN sp.data
    ELSE SubSeq(sp.data, sp.off + 1, Len(sp.data))

----------------------------------------------------------------------------
(* The body spooler: buffering.handler.ServeHTTP *)

\* h.maxSize > 0 && r.ContentLength > h.maxSize
DeclaredTooLarge(hh, cl) == hh.maxSize > 0 /\ cl > hh.maxSize

\* the threshold itself already goes to disk
UseMemory_Below(hh, cl) == hh.bufSize > 0 /\ cl > 0 /\ cl < hh.bufSize

\* case h.bufSize > 0 && r.ContentLength > 0 && r.ContentLength <= h.bufSize
UseMemory(hh, cl) == hh.bufSize > 0 /\ cl > 0 /\ cl <= hh.bufSize

\* a gate that never holds a request back
SlotFree_Always(len, cap) == TRUE

\* case h.gate <- struct{}{}: a send on the buffered channel goes through
\* while the channel is not full
SlotFree(len, cap) == len < cap

\* the declared length is not used as the limit
CopyLimit_MaxOnly(hh, cl) == hh.maxSize

\* max := h.maxSize; if r.ContentLength > 0 { max = r.ContentLength }
CopyLimit(hh, cl) == IF cl > 0 THEN cl ELSE hh.maxSize

\* the probe rejects only when both hold
ProbeRejects_And(n, err) == err # "EOF" /\ n > 0

\* if n, err := io.CopyN(ioutil.Discard, r.Body, 32); err != io.EOF || n > 0
ProbeRejects(n, err) == err # "EOF" \/ n > 0

\* a slot taken without the deferred release
DeferSlot_Forgotten(ds) == ds

\* the deferred calls after a slot was taken: defer func() { <-h.gate }()
DeferSlot(ds) == <<"slot">> \o ds

\* a temp file made without the deferred close
DeferClose_Forgotten(ds) == ds

\* the deferred calls after the temp file was made: defer f.Close()
DeferClose(ds) == <<"close">> \o ds

\* r2 := new(http.Request); *r2 = *r; r2.Body = body
NewRequest(q, body) ==
    [method |-> q.method, authz |-> q.authz, ctype |-> q.ctype, cl |-> q.cl,
     body |-> body]

\* the file is handed on as it is after the copy
Rewind_Missing(sp) == sp

\* the disk-backed storage before the handoff: f.Seek(0, io.SeekStart)
Rewind(sp) == IF sp.kind = "file" THEN SeekStart(sp) ELSE sp

\* h.Handler.ServeHTTP(w, rq): control passes to the wrapped handler
InvokeDownstream(r, rq) ==
    /\ downCalls' = [downCalls EXCEPT ![r] = @ + 1]
    /\ r2' = [r2 EXCEPT ![r] = rq]
    /\ pc' = [pc EXCEPT ![r] = IF bh.Handler = "pdfsvc" THEN "hServe" ELSE "stub"]

\* the spooler returns without writing the error response
SpoolerFail_Silent(r, code) ==
    /\ status' = status
    /\ pc' = [pc EXCEPT ![r] = IF defers[r] = <<>> THEN "done" ELSE "unwind"]

\* wErr(w, code); return: the deferred calls run next, if there are any
SpoolerFail(r, code) ==
    /\ status' = [status EXCEPT ![r] = code]
    /\ pc' = [pc EXCEPT ![r] = IF defers[r] = <<>> THEN "done" ELSE "unwind"]

\* lines 235-257: the request arrives; pass through, reject on the declared
\* length, or pick the storage
Receive(r) ==
    /\ pc[r] = "new"
    /\ \E q \in Shapes(bh) :
        /\ req' = [req EXCEPT ![r] = q]
        /\ IF q.cl = 0
           THEN /\ InvokeDownstream(r, NewRequest(q, q.data))
                /\ UNCHANGED <<status, spool>>
           ELSE IF DeclaredTooLarge(bh, q.cl)
           THEN /\ status' = [status EXCEPT ![r] = 413]
                /\ pc' = [pc EXCEPT ![r] = "done"]
                /\ UNCHANGED <<spool, downVars>>
           ELSE IF UseMemory(bh, q.cl)
           THEN /\ spool' = [spool EXCEPT ![r] = [kind |-> "mem", data |-> <<>>, off |-> 0]]
                /\ pc' = [pc EXCEPT ![r] = "copy"]
                /\ UNCHANGED <<status, downVars>>
           ELSE /\ pc' = [pc EXCEPT ![r] = IF bh.gateCap > 0 THEN "waitSlot" ELSE "tempfile"]
                /\ UNCHANGED <<status, spool, downVars>>
    /\ UNCHANGED <<header, bh, h, ctx, panicked, fileGate, sAcq, sRel, file, rpos, defers, convVars>>

\* select { case h.gate <- struct{}{}: defer func() { <-h.gate }() ... }
AcquireSlot(r) ==
    /\ pc[r] = "waitSlot"
    /\ SlotFree(fileGate, bh.gateCap)
    /\ fileGate' = fileGate + 1
    /\ sAcq' = [sAcq EXCEPT ![r] = @ + 1]
    /\ defers' = [defers EXCEPT ![r] = DeferSlot(@)]
    /\ pc' = [pc EXCEPT ![r] = "tempfile"]
    /\ UNCHANGED <<header, bh, h, req, ctx, status, panicked, sRel, file, spool, rpos, downVars, convVars>>

\* a wait budget even when none is configured
HasWaitBudget_Always(hh) == TRUE

\* if h.wait > 0 { ctx, cancel = context.WithTimeout(ctx, h.wait) ... }
HasWaitBudget(hh) == hh.wait > 0

\* case <-ctx.Done(): the wait budget of context.WithTimeout(ctx, h.wait)
\* runs out while the request waits
SlotWaitTimeout(r) ==
    /\ pc[r] = "waitSlot"
    /\ HasWaitBudget(bh)
    /\ ctx[r] = "live"
    /\ SpoolerFail(r, 503)
    /\ cause' = [cause EXCEPT ![r] = "waitTimeout"]
    /\ UNCHANGED <<header, bh, h, req, ctx, panicked, spoolVars, downVars,
                   convGate, pAcq, pRel, cctx, proc, cdefers, cerr, waited, ran>>

\* case <-ctx.Done(): the request's own context is cancelled (the client
\* went away) or its deadline passes, and the select takes that case.  (A
\* cancellation the select does not take, because a slot is free too, is
\* seen where the context is next looked at: see CallerCancel.)
SlotWaitCancelled(r) ==
    /\ pc[r] = "waitSlot"
    /\ ctx[r] = "live"
    /\ \E why \in {"canceled", "deadline"} : ctx' = [ctx EXCEPT ![r] = why]
    /\ SpoolerFail(r, 503)
    /\ cause' = [cause EXCEPT ![r] = "waitCancelled"]
    /\ UNCHANGED <<header, bh, h, req, panicked, spoolVars, downVars,
                   convGate, pAcq, pRel, cctx, proc, cdefers, cerr, waited, ran>>

\* f, err := ioutil.TempFile(h.dir, ".request-"); defer f.Close()
CreateTemp(r) ==
    /\ pc[r] = "tempfile"
    /\ \E ok \in BOOLEAN :
        IF ok
        THEN /\ file' = [file EXCEPT ![r] = "open"]
             /\ spool' = [spool EXCEPT ![r] = [kind |-> "file", data |-> <<>>, off |-> 0]]
             /\ defers' = [defers EXCEPT ![r] = DeferClose(@)]
             /\ pc' = [pc EXCEPT ![r] = "copy"]
             /\ UNCHANGED status
        ELSE /\ SpoolerFail(r, 500)
             /\ UNCHANGED <<file, spool, defers>>
    /\ UNCHANGED <<header, bh, h, req, ctx, panicked, fileGate, sAcq, sRel, rpos, downVars, convVars>>

\* lines 276-285 and 292-297: copy the body into the storage, up to the limit
\* when a maximum is configured.  A write to the temp file may fail.
CopyBody(r) ==
    /\ pc[r] = "copy"
    /\ \E wok \in {TRUE} \cup (IF spool[r].kind = "file" THEN {FALSE} ELSE {}) :
        LET res == IF bh.maxSize > 0
                   THEN CopyN(req[r], rpos[r], CopyLimit(bh, req[r].cl))
                   ELSE Copy(req[r], rpos[r])
            err == IF ~wok THEN "WERR" ELSE res.err
            failed == IF bh.maxSize > 0 THEN err \notin {"nil", "EOF"} ELSE err # "nil"
        IN /\ rpos' = [rpos EXCEPT ![r] = @ + res.written]
           /\ spool' = [spool EXCEPT ![r] = IF wok THEN Write(@, res.bytes) ELSE @]
           /\ IF failed
              THEN SpoolerFail(r, 500)
              ELSE /\ pc' = [pc EXCEPT ![r] = IF bh.maxSize > 0 THEN "probe" ELSE "handoff"]
                   /\ UNCHANGED status
    /\ UNCHANGED <<header, bh, h, req, ctx, panicked, fileGate, sAcq, sRel, file, defers, downVars, convVars>>

\* lines 286-291: read past the limit; anything there means over the limit
ProbeBody(r) ==
    /\ pc[r] = "probe"
    /\ LET res == CopyN(req[r], rpos[r], ProbeSize)
       IN /\ rpos' = [rpos EXCEPT ![r] = @ + res.written]
          /\ IF ProbeRejects(res.written, res.err)
             THEN SpoolerFail(r, 413)
             ELSE /\ pc' = [pc EXCEPT ![r] = "handoff"]
                  /\ UNCHANGED status
    /\ UNCHANGED <<header, bh, h, req, ctx, panicked, fileGate, sAcq, sRel, file, spool, defers, downVars, convVars>>

\* lines 299-309: rewind the file, build r2 and call the downstream handler
Handoff(r) ==
    /\ pc[r] = "handoff"
    /\ \E ok \in {TRUE} \cup (IF spool[r].kind = "file" THEN {FALSE} ELSE {}) :
        IF ok
        THEN /\ spool' = [spool EXCEPT ![r] = Rewind(@)]
             /\ InvokeDownstream(r, NewRequest(req[r], ReadAll(Rewind(spool[r]))))
             /\ UNCHANGED status
        ELSE /\ SpoolerFail(r, 500)
             /\ UNCHANGED <<spool, downVars>>
    /\ UNCHANGED <<header, bh, h, req, ctx, panicked, fileGate, sAcq, sRel, file, rpos, defers, convVars>>

\* one deferred call runs: f.Close(), or <-h.gate
RunDeferred(r) ==
    /\ pc[r] = "unwind"
    /\ defers[r] # <<>>
    /\ IF Head(defers[r]) = "close"
       THEN /\ file' = [file EXCEPT ![r] = "closed"]
            /\ UNCHANGED <<fileGate, sRel>>
       ELSE /\ fileGate > 0
            /\ fileGate' = fileGate - 1
            /\ sRel' = [sRel EXCEPT ![r] = @ + 1]
            /\ UNCHANGED file
    /\ defers' = [defers EXCEPT ![r] = Tail(@)]
    /\ pc' = [pc EXCEPT ![r] = IF Tail(defers[r]) = <<>> THEN "done" ELSE "unwind"]
    /\ UNCHANGED <<header, bh, h, req, ctx, status, panicked, sAcq, spool, rpos, downVars, convVars>>

----------------------------------------------------------------------------
(* The entry point: handler.ServeHTTP, and handler.convert *)

\* strings.TrimPrefix(s, prefix)
TrimPrefix(s, prefix) == IF s # <<>> /\ Head(s) = prefix THEN Tail(s) ELSE s

\* strings.HasPrefix(s, prefix)
HasPrefix(s, prefix) == s # <<>> /\ Head(s) = prefix

\* if val := strings.TrimPrefix(hdr, "Bearer "); val != hdr && val == h.token
Authorized(hdr, token) ==
    LET val == TrimPrefix(hdr, "Bearer ") IN val # hdr /\ val = token

\* the token is looked at before the method
EntryCheck_AuthFirst(hh, q) ==
    IF hh.token # <<>> /\ ~Authorized(q.authz, hh.token) THEN 401
    ELSE IF q.method # "POST" THEN 405
    ELSE IF ~HasPrefix(q.ctype, "text/html") THEN 400
    ELSE 0

\* lines 67-86: the status the checks on method, token and content type
\* answer with, 0 when they all pass
EntryCheck(hh, q) ==
    IF q.method # "POST" THEN 405
    ELSE IF hh.token # <<>> /\ ~Authorized(q.authz, hh.token) THEN 401
    ELSE IF ~HasPrefix(q.ctype, "text/html") THEN 400
    ELSE 0

\* lines 68 and 77: the header set before the error is written
EntryHeader(code) ==
    IF code = 405 THEN "Accept: POST"
    ELSE IF code = 401 THEN "WWW-Authenticate: Bearer"
    ELSE ""

\* a gate that was never made: a send on a nil channel blocks for ever
PermitFree_NilGate(len, cap) == FALSE

\* a gate that lets one call too many through
PermitFree_OneTooMany(len, cap) == len <= cap

\* case h.gate <- struct{}{}: the send goes through while the channel is not full
PermitFree(len, cap) == len < cap

\* the renderer is bound to the caller's context, not to the derived one
Eff_CallerOnly(c, cc) == c

\* the context convert works under: the derived one once made, else the caller's
Eff(c, cc) == IF cc = "none" THEN c ELSE cc

\* with a timeout configured only cancel() is deferred, the release is not
ConvertDefers_CancelOnly(hh) == IF hh.d > 0 THEN <<"cancel">> ELSE <<"permit">>

\* lines 106-116, once the permit is taken: defer func() { <-h.gate }(), and
\* with h.d > 0 also defer cancel(); these run in reverse order
ConvertDefers(hh) == IF hh.d > 0 THEN <<"cancel", "permit">> ELSE <<"permit">>

\* lines 132-140: what convert returns, given the error of cmd.Output() and
\* the state of the context at that moment
ConvertResult(outErr, ctxErr) ==
    IF outErr # "nil"
    THEN IF ctxErr # "live" THEN ctxErr ELSE outErr
    ELSE "nil"

\* every failure of convert is answered alike
ReplyCode_Always500(err) == IF err # "nil" THEN 500 ELSE 200

\* lines 93-102: the status for what convert returned
ReplyCode(err) ==
    IF err # "nil"
    THEN IF err = "deadline" THEN 504 ELSE 500
    ELSE 200

\* the error cmd.Output() returns for each end of the subprocess
OutputErr(p) == IF p = "exit0" THEN "nil" ELSE IF p = "nostart" THEN "StartError" ELSE "ExitError"

\* the handler returns to buffering's ServeHTTP, whose deferred calls then run
DownstreamReturns(r) ==
    pc' = [pc EXCEPT ![r] = IF defers[r] = <<>> THEN "done" ELSE "unwind"]

\* lines 66-92: the checks, the charset reader, and on to convert.
\* charset.NewReader reads ahead in the body and may fail.
HandlerServeHTTP(r) ==
    /\ pc[r] = "hServe"
    /\ LET code == EntryCheck(h, r2[r])
       IN IF code # 0
          THEN /\ status' = [status EXCEPT ![r] = code]
               /\ header' = [header EXCEPT ![r] = EntryHeader(code)]
               /\ DownstreamReturns(r)
          ELSE \E csok \in BOOLEAN :
                 IF csok
                 THEN /\ pc' = [pc EXCEPT ![r] = "cGate"]
                      /\ UNCHANGED <<status, header>>
                 ELSE /\ status' = [status EXCEPT ![r] = 415]
                      /\ DownstreamReturns(r)
                      /\ UNCHANGED header
    /\ UNCHANGED <<bh, h, req, ctx, panicked, spoolVars, downVars, convVars>>

\* a wrapped handler other than the service's own (the test's HandlerFunc):
\* it returns having answered 200
StubReturns(r) ==
    /\ pc[r] = "stub"
    /\ status' = [status EXCEPT ![r] = 200]
    /\ DownstreamReturns(r)
    /\ UNCHANGED <<header, bh, h, req, ctx, panicked, spoolVars, downVars, convVars>>

\* a wrapped handler does not return but panics (or, as t.Fatalf in the
\* test, exits its goroutine): the stack unwinds through buffering's
\* ServeHTTP, running its deferred calls; no response is written
StubPanics(r) ==
    /\ pc[r] = "stub"
    /\ panicked' = [panicked EXCEPT ![r] = TRUE]
    /\ DownstreamReturns(r)
    /\ UNCHANGED <<header, bh, h, req, ctx, status, spoolVars, downVars, convVars>>

\* select { case h.gate <- struct{}{}: ... }; then lines 112-116
ConvAcquire(r) ==
    /\ pc[r] = "cGate"
    /\ PermitFree(convGate, h.gateCap)
    /\ convGate' = convGate + 1
    /\ pAcq' = [pAcq EXCEPT ![r] = @ + 1]
    /\ cdefers' = [cdefers EXCEPT ![r] = ConvertDefers(h)]
    /\ cctx' = [cctx EXCEPT ![r] = IF h.d > 0 THEN ctx[r] ELSE "none"]
    /\ ran' = [ran EXCEPT ![r] = 0]
    /\ pc' = [pc EXCEPT ![r] = "cStart"]
    /\ UNCHANGED <<header, bh, h, req, ctx, status, panicked, spoolVars, downVars,
                   pRel, proc, cerr, cause, waited>>

\* a select without the case for the context
Done_Never(c) == FALSE

\* case <-ctx.Done(): the channel is closed once the context has an error
Done(c) == c # "live"

\* select { case <-ctx.Done(): return nil, ctx.Err() ... }
ConvCancelled(r) ==
    /\ pc[r] = "cGate"
    /\ Done(ctx[r])
    /\ cerr' = [cerr EXCEPT ![r] = ctx[r]]
    /\ cause' = [cause EXCEPT ![r] = ctx[r]]
    /\ waited' = [waited EXCEPT ![r] = 0]
    /\ pc' = [pc EXCEPT ![r] = "hReply"]
    /\ UNCHANGED <<header, bh, h, req, ctx, status, panicked, spoolVars, downVars,
                   convGate, pAcq, pRel, cctx, proc, cdefers, ran>>

\* cmd.Output(): the subprocess starts, unless the context is done already
\* or the start fails
ConvStart(r) ==
    /\ pc[r] = "cStart"
    /\ IF Eff(ctx[r], cctx[r]) # "live"
       THEN /\ proc' = [proc EXCEPT ![r] = "nostart"]
            /\ cause' = [cause EXCEPT ![r] = Eff(ctx[r], cctx[r])]
            /\ pc' = [pc EXCEPT ![r] = "cCheck"]
       ELSE \E ok \in BOOLEAN :
              IF ok
              THEN /\ proc' = [proc EXCEPT ![r] = "running"]
                   /\ pc' = [pc EXCEPT ![r] = "cRun"]
                   /\ UNCHANGED cause
              ELSE /\ proc' = [proc EXCEPT ![r] = "nostart"]
                   /\ cause' = [cause EXCEPT ![r] = "start"]
                   /\ pc' = [pc EXCEPT ![r] = "cCheck"]
    /\ UNCHANGED <<header, bh, h, req, ctx, status, panicked, spoolVars, downVars,
                   convGate, pAcq, pRel, cctx, cdefers, cerr, waited, ran>>

\* the subprocess ends by itself, with exit code 0 or not
ProcExit(r) ==
    /\ pc[r] = "cRun"
    /\ proc[r] = "running"
    /\ \E ok \in BOOLEAN :
        /\ proc' = [proc EXCEPT ![r] = IF ok THEN "exit0" ELSE "exitErr"]
        /\ cause' = [cause EXCEPT ![r] = IF ok THEN @ ELSE "exit"]
    /\ pc' = [pc EXCEPT ![r] = "cCheck"]
    /\ UNCHANGED <<header, bh, h, req, ctx, status, panicked, spoolVars, downVars,
                   convGate, pAcq, pRel, cctx, cdefers, cerr, waited, ran>>

\* exec.Command in place of exec.CommandContext: nothing kills the subprocess
ProcKill_Never(r) == pc[r] = "cRun" /\ FALSE /\ UNCHANGED vars

\* exec.CommandContext: the context is done, the subprocess is killed
ProcKill(r) ==
    /\ pc[r] = "cRun"
    /\ proc[r] = "running"
    /\ Eff(ctx[r], cctx[r]) # "live"
    /\ proc' = [proc EXCEPT ![r] = "killed"]
    /\ cause' = [cause EXCEPT ![r] = Eff(ctx[r], cctx[r])]
    /\ pc' = [pc EXCEPT ![r] = "cCheck"]
    /\ UNCHANGED <<header, bh, h, req, ctx, status, panicked, spoolVars, downVars,
                   convGate, pAcq, pRel, cctx, cdefers, cerr, waited, ran>>

\* a timer that counts the wait at the gate too, as one set before the select
TimerDue_CountsWait(hh, w, t) == w + t >= hh.d

\* context.WithTimeout(ctx, h.d), called once the permit is taken: the timer
\* is due h.d after that call, whatever time w went by at the gate before
TimerDue(hh, w, t) == t >= hh.d

\* time goes by while r waits at the full gate (select blocks)
GateWaitTick(r) ==
    /\ pc[r] = "cGate"
    /\ ~PermitFree(convGate, h.gateCap) /\ ~Done(ctx[r])
    /\ waited[r] < MaxWait
    /\ waited' = [waited EXCEPT ![r] = @ + 1]
    /\ UNCHANGED <<header, bh, h, pc, req, ctx, status, panicked, spoolVars, downVars,
                   convGate, pAcq, pRel, cctx, proc, cdefers, cerr, cause, ran>>

\* time goes by under convert's timer, up to the moment it is due
TimerTick(r) ==
    /\ pc[r] \in {"cStart", "cRun", "cCheck"}
    /\ cctx[r] = "live"
    /\ ~TimerDue(h, waited[r], ran[r])
    /\ ran' = [ran EXCEPT ![r] = @ + 1]
    /\ UNCHANGED <<header, bh, h, pc, req, ctx, status, panicked, spoolVars, downVars,
                   convGate, pAcq, pRel, cctx, proc, cdefers, cerr, cause, waited>>

\* context.WithTimeout(ctx, h.d): the timer fires
DeadlineFires(r) ==
    /\ pc[r] \in {"cStart", "cRun", "cCheck"}
    /\ cctx[r] = "live"
    /\ TimerDue(h, waited[r], ran[r])
    /\ cctx' = [cctx EXCEPT ![r] = "deadline"]
    /\ UNCHANGED <<header, bh, h, pc, req, ctx, status, panicked, spoolVars, downVars,
                   convGate, pAcq, pRel, proc, cdefers, cerr, cause, waited, ran>>

\* the places in convert where the context is looked at or waited on; a
\* cancellation that comes before convert is seen there first, as one that
\* comes on arrival there
CtxWatched == {"cGate", "cStart", "cRun", "cCheck"}

\* the request's context is cancelled (the client went away) or its own
\* deadline passes; a context derived from it is done with the same error
CallerCancel(r) ==
    /\ pc[r] \in CtxWatched
    /\ Eff(ctx[r], cctx[r]) = "live"
    /\ \E why \in {"canceled", "deadline"} :
        /\ ctx' = [ctx EXCEPT ![r] = why]
        /\ cctx' = [cctx EXCEPT ![r] = IF @ = "live" THEN why ELSE @]
    /\ UNCHANGED <<header, bh, h, pc, req, status, panicked, spoolVars, downVars,
                   convGate, pAcq, pRel, proc, cdefers, cerr, cause, waited, ran>>

\* lines 124-140: cmd.Output() has returned; decide what convert returns
ConvCheck(r) ==
    /\ pc[r] = "cCheck"
    /\ cerr' = [cerr EXCEPT ![r] = ConvertResult(OutputErr(proc[r]), Eff(ctx[r], cctx[r]))]
    /\ pc' = [pc EXCEPT ![r] = "cUnwind"]
    /\ UNCHANGED <<header, bh, h, req, ctx, status, panicked, spoolVars, downVars,
                   convGate, pAcq, pRel, cctx, proc, cdefers, cause, waited, ran>>

\* one deferred call of convert runs: cancel(), or <-h.gate
ConvDeferred(r) ==
    /\ pc[r] = "cUnwind"
    /\ cdefers[r] # <<>>
    /\ IF Head(cdefers[r]) = "cancel"
       THEN /\ cctx' = [cctx EXCEPT ![r] = IF @ = "live" THEN "canceled" ELSE @]
            /\ ran' = [ran EXCEPT ![r] = 0]
            /\ UNCHANGED <<convGate, pRel, waited>>
       ELSE /\ convGate > 0
            /\ convGate' = convGate - 1
            /\ pRel' = [pRel EXCEPT ![r] = @ + 1]
            /\ waited' = [waited EXCEPT ![r] = 0]
            /\ UNCHANGED <<cctx, ran>>
    /\ cdefers' = [cdefers EXCEPT ![r] = Tail(@)]
    /\ pc' = [pc EXCEPT ![r] = IF Tail(cdefers[r]) = <<>> THEN "hReply" ELSE "cUnwind"]
    /\ UNCHANGED <<header, bh, h, req, ctx, status, panicked, spoolVars, downVars,
                   pAcq, proc, cerr, cause>>

\* lines 93-102: answer with the status for convert's result
HandlerReply(r) ==
    /\ pc[r] = "hReply"
    /\ status' = [status EXCEPT ![r] = ReplyCode(cerr[r])]
    /\ header' = [header EXCEPT ![r] = IF cerr[r] = "nil" THEN "Content-Type: application/pdf" ELSE @]
    /\ DownstreamReturns(r)
    /\ UNCHANGED <<bh, h, req, ctx, panicked, spoolVars, downVars, convVars>>

----------------------------------------------------------------------------

Next ==
    \E r \in Reqs :
        \/ Receive(r)
        \/ AcquireSlot(r)
        \/ SlotWaitTimeout(r)
        \/ SlotWaitCancelled(r)
        \/ CreateTemp(r)
        \/ CopyBody(r)
        \/ ProbeBody(r)
        \/ Handoff(r)
        \/ RunDeferred(r)
        \/ HandlerServeHTTP(r)
        \/ StubReturns(r)
        \/ StubPanics(r)
        \/ ConvAcquire(r)
        \/ ConvCancelled(r)
        \/ ConvStart(r)
        \/ ProcExit(r)
        \/ ProcKill(r)
        \/ GateWaitTick(r)
        \/ TimerTick(r)
        \/ DeadlineFires(r)
        \/ CallerCancel(r)
        \/ ConvCheck(r)
        \/ ConvDeferred(r)
        \/ HandlerReply(r)

Spec == Init /\ [][Next]_vars

\* the steps of request r that its goroutine, the runtime's timers and the
\* kill of exec.CommandContext take by themselves.  Not among them: the
\* arrival of the request, the cancellation of its context by the caller,
\* and the end of the renderer on its own (it may hang).
Progress(r) ==
    \/ AcquireSlot(r) \/ SlotWaitTimeout(r) \/ CreateTemp(r) \/ CopyBody(r)
    \/ ProbeBody(r) \/ Handoff(r) \/ RunDeferred(r)
    \/ HandlerServeHTTP(r) \/ StubReturns(r) \/ StubPanics(r)
    \/ ConvAcquire(r) \/ ConvCancelled(r) \/ ConvStart(r) \/ ProcKill(r)
    \/ TimerTick(r) \/ DeadlineFires(r)
    \/ ConvCheck(r) \/ ConvDeferred(r) \/ HandlerReply(r)

\* every goroutine that can run is run, every timer that is set fires
FairSpec ==
    InitWith(LiveConfigs) /\ [][Next]_vars /\ \A r \in Reqs : WF_vars(Progress(r))

----------------------------------------------------------------------------
(* Notions the properties below are stated with *)

\* r is in convert, between taking the permit and returning
InConvert(r) == pc[r] \in {"cStart", "cRun", "cCheck", "cUnwind"}

\* r has a disk slot / a conversion permit it has not given back
HoldsSlot(r) == sAcq[r] > sRel[r]
HoldsPermit(r) == pAcq[r] > pRel[r]

\* buffering's ServeHTTP has returned for r
Finished(r) == pc[r] = "done"

\* r has been received with a non-empty declared or an unknown length
Received(r) == pc[r] # "new"

\* the body of r is stored on disk: declared length over the threshold, or unknown
DiskRequest(r) == Received(r) /\ (req[r].cl > bh.bufSize \/ req[r].cl < 0)

\* the body of r is stored in memory: 0 < declared length <= threshold
MemRequest(r) == Received(r) /\ req[r].cl > 0 /\ req[r].cl <= bh.bufSize

----------------------------------------------------------------------------
(* C1: with a conversion gate of size N, at most N convert calls are past
   the permit acquisition, at most N renderer subprocesses run, and while N
   calls are past it a further call waiting at the gate cannot get through. *)
C1_ConversionGateBound ==
    /\ Cardinality({r \in Reqs : InConvert(r)}) <= h.gateCap
    /\ Cardinality({r \in Reqs : proc[r] = "running"}) <= h.gateCap
    /\ Cardinality({r \in Reqs : InConvert(r)}) = h.gateCap =>
          \A r \in Reqs : pc[r] = "cGate" => ~ENABLED ConvAcquire(r)

\* N calls hold the gate with their subprocess running, one more is waiting
C1_Witness ==
    /\ Cardinality({r \in Reqs : proc[r] = "running"}) = h.gateCap
    /\ \E r \in Reqs : pc[r] = "cGate" /\ ctx[r] = "live"

(* C2: with a file limit configured, the disk slots held, and so the spool
   files open, never number more than maxFiles, whatever happens to the
   other requests. *)
C2_DiskSlotBound ==
    bh.gateCap > 0 =>
        /\ fileGate <= bh.gateCap
        /\ Cardinality({r \in Reqs : HoldsSlot(r)}) <= bh.gateCap
        /\ Cardinality({r \in Reqs : file[r] = "open"}) <= bh.gateCap

\* every slot is held, by requests with their spool file open, while another
\* request was turned away from the queue
C2_Witness ==
    /\ bh.gateCap > 0
    /\ Cardinality({r \in Reqs : file[r] = "open" /\ HoldsSlot(r)}) = bh.gateCap
    /\ \E r \in Reqs : Finished(r) /\ status[r] = 503

(* C3, as stated (taking a file limit to be configured and the declared
   length not to be over the maximum): every finished request stored on disk
   has acquired exactly one disk slot and released exactly one. *)
C3_Original ==
    \A r \in Reqs :
        DiskRequest(r) /\ bh.gateCap > 0 /\ ~(bh.maxSize > 0 /\ req[r].cl > bh.maxSize)
            /\ Finished(r) => sAcq[r] = 1 /\ sRel[r] = 1

(* C3, amended: with a file limit configured, a request stored on disk whose
   declared length is not over the maximum acquires at most one disk slot
   and never releases more than it acquired; once finished it has acquired
   and released exactly one, also when the temp file or the copy failed,
   unless its wait for a slot ended in 503, and then it acquired none. *)
C3_SlotPerDiskRequest ==
    \A r \in Reqs :
        DiskRequest(r) /\ bh.gateCap > 0 /\ ~(bh.maxSize > 0 /\ req[r].cl > bh.maxSize) =>
            /\ sRel[r] <= sAcq[r] /\ sAcq[r] <= 1
            /\ Finished(r) =>
                  IF cause[r] \in {"waitTimeout", "waitCancelled"}
                  THEN status[r] = 503 /\ sAcq[r] = 0 /\ sRel[r] = 0
                  ELSE sAcq[r] = 1 /\ sRel[r] = 1

\* a disk request that failed midway (temp file or copy: 500, the downstream
\* handler never called) has acquired and released its one slot
C3_Witness ==
    \E r \in Reqs :
        /\ DiskRequest(r) /\ bh.gateCap > 0 /\ Finished(r)
        /\ status[r] = 500 /\ downCalls[r] = 0
        /\ sAcq[r] = 1 /\ sRel[r] = 1

(* C4: once the spooler's handling of a request has ended, by whatever path,
   the request holds no disk slot, its spool file is not open, and no
   deferred call is left; the slots in the gate are those of unfinished
   requests. *)
C4_ReleasedWhenFinished ==
    /\ \A r \in Reqs :
          Finished(r) => ~HoldsSlot(r) /\ file[r] # "open" /\ defers[r] = <<>>
    /\ fileGate = Cardinality({r \in Reqs : ~Finished(r) /\ HoldsSlot(r)})

\* a request whose downstream handler panicked while it held a slot and an
\* open file has finished, slot released and file closed
C4_Witness ==
    \E r \in Reqs :
        /\ Finished(r) /\ panicked[r]
        /\ sAcq[r] = 1 /\ sRel[r] = 1 /\ file[r] = "closed"

(* C5: a renderer subprocess runs only under a held permit; the permits in
   the gate are exactly those of the convert calls between acquisition and
   return; a convert call that has returned has released what it acquired,
   on every exit path. *)
C5_PermitPairing ==
    /\ \A r \in Reqs : proc[r] = "running" => HoldsPermit(r) /\ InConvert(r)
    /\ convGate = Cardinality({r \in Reqs : InConvert(r)})
    /\ \A r \in Reqs : InConvert(r) <=> HoldsPermit(r)
    /\ \A r \in Reqs : ~InConvert(r) => pAcq[r] = pRel[r] /\ pAcq[r] <= 1

\* convert calls have returned after a deadline kill and after a failure to
\* start, each with its permit released
C5_Witness ==
    /\ \E r \in Reqs : pc[r] \in {"hReply", "unwind", "done"} /\ proc[r] = "killed"
                       /\ cause[r] = "deadline" /\ pAcq[r] = 1 /\ pRel[r] = 1
    /\ \E r \in Reqs : pc[r] \in {"hReply", "unwind", "done"} /\ proc[r] = "nostart"
                       /\ cause[r] = "start" /\ pAcq[r] = 1 /\ pRel[r] = 1

(* C6: a request whose declared length L has 0 < L <= threshold is stored in
   memory and never touches the disk-slot gate: it acquires no slot, never
   waits for one, makes no temp file, is never answered 503, and while the
   spooler works on it it can always take its next step, whoever holds the
   slots. *)
C6_MemoryAvoidsGate ==
    \A r \in Reqs :
        MemRequest(r) =>
            /\ sAcq[r] = 0 /\ sRel[r] = 0 /\ file[r] = "none"
            /\ pc[r] \notin {"waitSlot", "tempfile"}
            /\ status[r] # 503
            /\ spool[r].kind \in {"none", "mem"}
            /\ pc[r] \in {"copy", "probe", "handoff"} =>
                  ENABLED (CopyBody(r) \/ ProbeBody(r) \/ Handoff(r))

\* while others hold every disk slot, with their spool files open, a memory
\* request has come through the spooler to the downstream handler
C6_Witness ==
    \E r \in Reqs :
        /\ MemRequest(r) /\ spool[r].kind = "mem" /\ downCalls[r] = 1
        /\ bh.gateCap > 0 /\ fileGate = bh.gateCap
        /\ Cardinality({o \in Reqs \ {r} : HoldsSlot(o) /\ file[o] = "open"}) = bh.gateCap

\* the limit of the copy as C7 states it
C7Limit(r) == IF req[r].cl > 0 THEN req[r].cl ELSE bh.maxSize

(* C7: with a maximum body size configured, of a request whose body is
   longer than the maximum the spooler never reads more than limit + 32
   bytes, limit being the declared length if known and else the maximum;
   it reads nothing when the declared length is over the maximum. *)
C7_BoundedRead ==
    \A r \in Reqs :
        Received(r) /\ bh.maxSize > 0 /\ Len(req[r].data) > bh.maxSize =>
            /\ rpos[r] <= C7Limit(r) + ProbeSize
            /\ req[r].cl > bh.maxSize => rpos[r] = 0

\* a body longer than limit + 32 was rejected after exactly limit + 32
\* bytes, its declared length below the maximum
C7_Witness ==
    \E r \in Reqs :
        /\ Finished(r) /\ status[r] = 413 /\ bh.maxSize > 0
        /\ req[r].cl > 0 /\ req[r].cl < bh.maxSize
        /\ Len(req[r].data) > C7Limit(r) + ProbeSize
        /\ rpos[r] = C7Limit(r) + ProbeSize

\* the copy of r's body has stored the whole limit and the body goes on
YieldsPastLimit(r) ==
    /\ req[r].cl # 0 /\ req[r].cl <= bh.maxSize
    /\ pc[r] \notin {"new", "waitSlot", "tempfile", "copy", "probe"}
    /\ Len(spool[r].data) = C7Limit(r)
    /\ Len(req[r].data) > C7Limit(r)

(* C8: with a maximum body size configured, a request whose declared length
   is over it, or whose body goes on after the limit was copied, is answered
   413 and never reaches the downstream handler; and a body the downstream
   handler does get is never a truncated one. *)
C8_TooLargeRejected ==
    \A r \in Reqs :
        Received(r) /\ bh.maxSize > 0 =>
            /\ req[r].cl > bh.maxSize \/ YieldsPastLimit(r) =>
                  /\ downCalls[r] = 0
                  /\ pc[r] \in {"unwind", "done"} /\ status[r] = 413
            /\ downCalls[r] > 0 => Len(r2[r].body) = Len(req[r].data)

\* a body of unknown length, one byte over the maximum, was caught by the
\* probe: answered 413, the downstream handler not called
C8_Witness ==
    \E r \in Reqs :
        /\ Finished(r) /\ bh.maxSize > 0 /\ req[r].cl < 0
        /\ Len(req[r].data) = bh.maxSize + 1 /\ rpos[r] = bh.maxSize + 1
        /\ status[r] = 413 /\ downCalls[r] = 0

\* the body of r is within the configured limits and ends cleanly
WithinLimits(r) ==
    /\ Received(r) /\ req[r].end = "EOF"
    /\ bh.maxSize > 0 /\ req[r].cl # 0 => Len(req[r].data) <= C7Limit(r) /\ req[r].cl <= bh.maxSize

\* the request handed downstream is the original but for its body
SameButBody(q, o) ==
    q.method = o.method /\ q.authz = o.authz /\ q.ctype = o.ctype /\ q.cl = o.cl

(* C9, as stated (storage failures, answered 500, set aside): for every body
   within the limits the downstream handler is called exactly once, with a
   body that reads back as sent and a request that is otherwise the
   original. *)
C9_Original ==
    \A r \in Reqs :
        WithinLimits(r) /\ Finished(r) /\ ~(downCalls[r] = 0 /\ status[r] = 500) =>
            /\ downCalls[r] = 1
            /\ r2[r].body = req[r].data
            /\ SameButBody(r2[r], req[r])

(* C9, amended: the downstream handler is called at most once per request;
   when it is called, with memory or disk storage, the body it gets reads
   back from the first byte exactly as sent, and the request is otherwise
   the original; and for a body within the limits it is called exactly once
   unless the spooler itself answered 503 (no disk slot) or 500 (temp file,
   write or rewind failed), and then it is not called at all. *)
C9_RoundTrip ==
    \A r \in Reqs :
        /\ downCalls[r] <= 1
        /\ downCalls[r] = 1 =>
              /\ r2[r].body = req[r].data
              /\ SameButBody(r2[r], req[r])
        /\ WithinLimits(r) /\ Finished(r) =>
              \/ downCalls[r] = 1
              \/ downCalls[r] = 0 /\ status[r] \in {500, 503}

\* a body of several bytes went through a temp file and reached the
\* downstream handler as sent, while another went through memory
C9_Witness ==
    /\ \E r \in Reqs : /\ spool[r].kind = "file" /\ downCalls[r] = 1
                       /\ Len(req[r].data) >= 2 /\ r2[r].body = req[r].data
    /\ \E r \in Reqs : /\ spool[r].kind = "mem" /\ downCalls[r] = 1
                       /\ Len(req[r].data) >= 1 /\ r2[r].body = req[r].data

(* C10: a conversion that failed because a deadline passed is answered 504,
   one that failed because the caller's context was cancelled otherwise is
   answered 500, and once either has happened no renderer runs for that
   request any more. *)
C10_TimeoutVersusCancel ==
    \A r \in Reqs :
        /\ cause[r] \in {"deadline", "canceled"} => proc[r] # "running"
        /\ Finished(r) /\ cause[r] = "deadline" => status[r] = 504
        /\ Finished(r) /\ cause[r] = "canceled" => status[r] = 500

\* one conversion was killed at the deadline and answered 504, another was
\* cancelled by its caller and answered 500
C10_Witness ==
    /\ \E r \in Reqs : Finished(r) /\ cause[r] = "deadline" /\ proc[r] = "killed" /\ status[r] = 504
    /\ \E r \in Reqs : Finished(r) /\ cause[r] = "canceled" /\ status[r] = 500

(* C11: a renderer subprocess that fails on its own (a non-zero exit, not the
   deadline's kill) before the deadline passes is answered 500 and never
   504, wherever the deadline falls between its exit and the moment convert
   looks at the context; 504 is given only when the deadline had passed
   before the subprocess ended. *)
C11_OwnFailureIs500 ==
    \A r \in Reqs :
        /\ Finished(r) /\ proc[r] = "exitErr" => status[r] = 500
        /\ Finished(r) /\ status[r] = 504 => proc[r] \in {"none", "nostart", "killed"}

\* the wait of r for a disk slot has ended without one
WaitEndedWithoutSlot(r) == cause[r] \in {"waitTimeout", "waitCancelled"}

\* what a request waiting for a disk slot may do next, and what has become of
\* one whose wait ended without a slot
C12_WaitState ==
    \A r \in Reqs :
        /\ pc[r] = "waitSlot" =>
              /\ DiskRequest(r) /\ bh.gateCap > 0 /\ ~HoldsSlot(r)
              /\ ENABLED AcquireSlot(r) <=> fileGate < bh.gateCap
              /\ ENABLED SlotWaitTimeout(r) <=> bh.wait > 0 /\ ctx[r] = "live"
        /\ WaitEndedWithoutSlot(r) =>
              /\ Finished(r) /\ status[r] = 503
              /\ sAcq[r] = 0 /\ file[r] = "none" /\ spool[r].kind = "none"
              /\ rpos[r] = 0 /\ downCalls[r] = 0

\* the steps that end the wait of a request for a disk slot
C12_WaitStep ==
    \A r \in Reqs :
        pc[r] = "waitSlot" /\ pc'[r] # "waitSlot" =>
            \/ /\ fileGate < bh.gateCap /\ sAcq'[r] = 1 /\ fileGate' = fileGate + 1
               /\ pc'[r] = "tempfile" /\ status'[r] = 0
            \/ /\ bh.wait > 0 /\ cause'[r] = "waitTimeout"
               /\ pc'[r] = "done" /\ status'[r] = 503 /\ sAcq'[r] = 0
            \/ /\ ctx[r] = "live" /\ ctx'[r] # "live" /\ cause'[r] = "waitCancelled"
               /\ pc'[r] = "done" /\ status'[r] = 503 /\ sAcq'[r] = 0

(* C12: a request waiting for a disk slot stops waiting when a slot is free,
   when the wait budget runs out (only with a budget > 0) or when its
   context is cancelled; with a budget of 0 only a free slot or a
   cancellation ends the wait.  A wait that ends without a slot ends in 503,
   with no slot acquired, no spool file made, no byte of the body read and
   the downstream handler not called. *)
C12_SlotWaitEnds == []C12_WaitState /\ [][C12_WaitStep]_vars

\* with a budget of 0 and every slot held by another request, a request's
\* wait was ended by a cancellation: 503, nothing acquired, read or called
C12_Witness ==
    \E r \in Reqs :
        /\ bh.wait = 0 /\ cause[r] = "waitCancelled" /\ ctx[r] # "live"
        /\ Finished(r) /\ status[r] = 503 /\ rpos[r] = 0 /\ downCalls[r] = 0
        /\ \E o \in Reqs \ {r} : HoldsSlot(o) /\ fileGate = bh.gateCap

(* C13, as stated: a wait for a disk slot that the wait budget ended and one
   that the caller's cancellation ended are answered differently. *)
C13_Original ==
    \A r, o \in Reqs :
        /\ Finished(r) /\ cause[r] = "waitTimeout"
        /\ Finished(o) /\ cause[o] = "waitCancelled"
        => status[r] # status[o]

(* C13, amended: a wait for a disk slot that ends without a slot is answered
   503 whichever cause ended it, the wait budget or the cancellation of the
   caller's context: the two get the same response; and 503 is given for
   nothing else. *)
C13_OneOutcome ==
    \A r \in Reqs :
        /\ WaitEndedWithoutSlot(r) => status[r] = 503
        /\ status[r] = 503 => WaitEndedWithoutSlot(r) /\ sAcq[r] = 0
        /\ \A o \in Reqs :
              cause[r] = "waitTimeout" /\ cause[o] = "waitCancelled" => status[r] = status[o]

\* one request's wait was ended by the budget, another's by a cancellation,
\* and both were answered 503
C13_Witness ==
    \E r, o \in Reqs :
        /\ Finished(r) /\ cause[r] = "waitTimeout" /\ ctx[r] = "live" /\ status[r] = 503
        /\ Finished(o) /\ cause[o] = "waitCancelled" /\ ctx[o] # "live" /\ status[o] = 503

\* what a convert call waiting at the gate with its context cancelled can do
C14_BlockedState ==
    \A r \in Reqs :
        pc[r] = "cGate" =>
            /\ pAcq[r] = 0 /\ proc[r] = "none" /\ cerr[r] = ""
            /\ ctx[r] # "live" => ENABLED ConvCancelled(r)
            /\ ctx[r] = "live" /\ convGate = h.gateCap => ~ENABLED Progress(r)

\* the only way out of the wait at a full gate is the return of the context's error
C14_BlockedStep ==
    \A r \in Reqs :
        pc[r] = "cGate" /\ convGate = h.gateCap /\ pc'[r] # "cGate" =>
            /\ ctx[r] # "live" /\ cerr'[r] = ctx[r]
            /\ pc'[r] = "hReply" /\ pAcq'[r] = 0 /\ proc'[r] = "none"

(* C14: a convert call that waits at a full conversion gate and whose context
   is cancelled does not stay there: it returns, with the context's error
   and with no permit taken and no renderer started when the gate stayed
   full, also when no other call ever gives a permit back. *)
C14_CancelUnblocks ==
    /\ []C14_BlockedState
    /\ [][C14_BlockedStep]_vars
    /\ \A r \in Reqs :
          (pc[r] = "cGate" /\ ctx[r] # "live") ~> (cerr[r] = ctx[r] \/ pAcq[r] = 1)

\* a call has returned the cancellation's error from a gate that is still
\* full: the holder's renderer is running and nothing makes it end
C14_Witness ==
    \E r \in Reqs :
        /\ pc[r] \in {"hReply", "unwind", "done"} /\ cerr[r] = "canceled" /\ ctx[r] = "canceled"
        /\ pAcq[r] = 0 /\ proc[r] = "none"
        /\ convGate = h.gateCap /\ h.d = 0
        /\ \E o \in Reqs \ {r} : proc[o] = "running" /\ ctx[o] = "live"

\* the context the renderer of r was started under is done: the derived one
\* when a timeout is configured, else the caller's
RendererCtxDone(r) ==
    IF cctx[r] = "none" THEN ctx[r] # "live" ELSE cctx[r] # "live"

\* a renderer running under a context that is done can be killed at once,
\* and holds a permit until then; the gate holds the permits not given back
C15_KillState ==
    /\ \A r \in Reqs :
          proc[r] = "running" /\ RendererCtxDone(r) =>
              ENABLED ProcKill(r) /\ HoldsPermit(r)
    /\ convGate = Cardinality({r \in Reqs : HoldsPermit(r)})

\* a renderer is killed only under a context that is done, and the kill ends
\* cmd.Output()
C15_KillStep ==
    \A r \in Reqs :
        proc[r] = "running" /\ proc'[r] = "killed" =>
            RendererCtxDone(r) /\ pc'[r] = "cCheck"

(* C15: when the deadline passes or the caller's context is cancelled while
   the renderer runs, the renderer is killed, convert returns and its
   permit is given back; so with a max-duration > 0 no permit is held for
   ever, also when the renderer hangs, and, the gate holding just the
   permits not given back, a full gate does not stay full. *)
C15_DeadlineFreesPermit ==
    /\ []C15_KillState
    /\ [][C15_KillStep]_vars
    /\ \A r \in Reqs :
          (HoldsPermit(r) /\ (h.d > 0 \/ RendererCtxDone(r))) ~>
              (~HoldsPermit(r) /\ proc[r] # "running" /\ cerr[r] # "")

\* a renderer was killed at the deadline of the max-duration, its caller
\* still there; the permit it gave back went to the next call
C15_Witness ==
    \E r \in Reqs :
        /\ h.d > 0 /\ proc[r] = "killed" /\ cctx[r] = "deadline" /\ ctx[r] = "live"
        /\ cerr[r] = "deadline" /\ pAcq[r] = 1 /\ pRel[r] = 1
        /\ h.gateCap = 1 /\ \E o \in Reqs \ {r} : HoldsPermit(o) /\ proc[o] = "running"

\* the request as the service's handler got it passes the three checks
\* (a header value is the sequence of its pieces)
C16Admissible(q) ==
    /\ q.method = "POST"
    /\ h.token = <<>> \/ q.authz = <<"Bearer ">> \o h.token
    /\ q.ctype # <<>> /\ q.ctype[1] = "text/html"

\* the service's handler has been called for r and has returned
C16Answered(r) ==
    bh.Handler = "pdfsvc" /\ downCalls[r] = 1 /\ pc[r] \in {"unwind", "done"}

(* C16: a request gets to the conversion (waits for or takes a permit,
   starts a renderer) only if its method is POST, no token is configured or
   its Authorization header is "Bearer " followed by the token, and its
   Content-Type starts with text/html; any other is answered, the checks
   made in this order, 405 with Accept: POST, 401 with WWW-Authenticate:
   Bearer, or 400, and takes no permit. *)
C16_EntryChecks ==
    \A r \in Reqs :
        /\ pc[r] = "cGate" \/ InConvert(r) \/ pAcq[r] > 0 \/ proc[r] # "none" \/ cerr[r] # ""
              => C16Admissible(r2[r])
        /\ C16Answered(r) /\ ~C16Admissible(r2[r]) =>
              /\ pAcq[r] = 0 /\ proc[r] = "none" /\ cerr[r] = ""
              /\ IF r2[r].method # "POST"
                 THEN status[r] = 405 /\ header[r] = "Accept: POST"
                 ELSE IF h.token # <<>> /\ r2[r].authz # <<"Bearer ">> \o h.token
                 THEN status[r] = 401 /\ header[r] = "WWW-Authenticate: Bearer"
                 ELSE status[r] = 400 /\ header[r] = ""

\* with a token configured, a GET with a wrong token and a wrong content
\* type was answered 405, a POST without the Authorization header 401
C16_Witness ==
    /\ h.token = <<"secret">>
    /\ \E r \in Reqs :
          /\ C16Answered(r) /\ r2[r].method = "GET" /\ r2[r].authz = <<"Bearer ", "wrong">>
          /\ r2[r].ctype = <<"text/plain">> /\ status[r] = 405 /\ header[r] = "Accept: POST"
    /\ \E r \in Reqs :
          /\ C16Answered(r) /\ r2[r].method = "POST" /\ r2[r].authz = <<>>
          /\ status[r] = 401 /\ header[r] = "WWW-Authenticate: Bearer" /\ pAcq[r] = 0

\* the copy of r's body has run
CopyHasRun(r) == spool[r].kind # "none" /\ pc[r] \notin {"new", "waitSlot", "tempfile", "copy"}

\* a read of r's body has failed: the body ends in an error, and the copy or
\* the probe has asked for more than the body yields
ReadFailed(r) ==
    /\ req[r].end = "ERR" /\ CopyHasRun(r)
    /\ bh.maxSize > 0 =>
          \/ Len(req[r].data) < C7Limit(r)
          \/ pc[r] # "probe" /\ Len(req[r].data) < C7Limit(r) + ProbeSize

(* C17: a failure to read the request body, in the bounded copy, in the
   probe past the limit or in the unlimited copy, is answered 500, never
   413, and the downstream handler is not called; 413 is given only for a
   declared length over the maximum or a body that does yield data past the
   limit. *)
C17_ReadFailureIs500 ==
    \A r \in Reqs :
        /\ ReadFailed(r) =>
              /\ pc[r] \in {"unwind", "done"} /\ downCalls[r] = 0
              /\ status[r] = 500
        /\ status[r] = 413 =>
              \/ bh.maxSize > 0 /\ req[r].cl > bh.maxSize
              \/ bh.maxSize > 0 /\ Len(req[r].data) > C7Limit(r)

\* convert's timer of r is set and has not been stopped by cancel()
TimerSet(r) ==
    \/ pc[r] \in {"cStart", "cRun", "cCheck"}
    \/ pc[r] = "cUnwind" /\ cdefers[r] # <<>> /\ Head(cdefers[r]) = "cancel"

\* no timer runs for a call waiting at the gate; a timer that has fired on
\* a caller still there has run the whole max-duration since the permit
C18_BudgetState ==
    \A r \in Reqs :
        /\ pc[r] = "cGate" =>
              /\ cctx[r] = "none" /\ ran[r] = 0
              /\ ~ENABLED DeadlineFires(r) /\ ~ENABLED TimerTick(r)
        /\ ran[r] <= h.d /\ waited[r] <= MaxWait
        /\ TimerSet(r) /\ cctx[r] = "deadline" /\ ctx[r] = "live" => ran[r] = h.d

\* the wait ends with the permit, and then the budget starts whole, or with
\* the caller's context done; the timer fires only when the whole budget
\* has gone by since the permit
C18_BudgetStep ==
    \A r \in Reqs :
        /\ pc[r] = "cGate" /\ pc'[r] # "cGate" =>
              \/ /\ pc'[r] = "cStart" /\ pAcq'[r] = pAcq[r] + 1 /\ ran'[r] = 0
                 /\ h.d > 0 => cctx'[r] = ctx[r]
                 /\ h.d = 0 => cctx'[r] = "none"
              \/ /\ pc'[r] = "hReply" /\ ctx[r] # "live" /\ cerr'[r] = ctx[r]
                 /\ pAcq'[r] = pAcq[r]
        /\ cctx[r] = "live" /\ cctx'[r] = "deadline" /\ ctx'[r] = "live" =>
              h.d > 0 /\ ran[r] = h.d

(* C18: the max-duration starts only when the conversion permit has been
   taken: the time spent waiting for the permit does not count, the wait is
   ended only by the permit or by the caller's own context, and a request
   that gets a permit has the whole max-duration for its renderer, or less
   only when its own context is done earlier. *)
C18_BudgetAfterPermit == []C18_BudgetState /\ [][C18_BudgetStep]_vars

\* a request that waited at the full gate as long as the max-duration has
\* its renderer running, with its budget not used up
C18_Witness ==
    \E r \in Reqs :
        /\ h.d > 0 /\ waited[r] >= h.d
        /\ pc[r] = "cRun" /\ proc[r] = "running" /\ cctx[r] = "live" /\ ran[r] < h.d

\* which deadline the renderer of r is under, at every moment
C19_DeadlineState ==
    \A r \in Reqs :
        \* no max-duration: no derived context, no timer, the caller's alone
        /\ h.d = 0 =>
              /\ cctx[r] = "none" /\ ran[r] = 0
              /\ ~ENABLED TimerTick(r) /\ ~ENABLED DeadlineFires(r)
              /\ proc[r] = "killed" => ctx[r] # "live"
        \* a max-duration: the derived context is done by deadline no earlier
        \* than the earlier of the two, and no later than the caller's
        /\ h.d > 0 /\ TimerSet(r) =>
              /\ cctx[r] # "none"
              /\ cctx[r] = "deadline" => ctx[r] = "deadline" \/ ran[r] = h.d
              /\ ctx[r] # "live" => cctx[r] # "live"
              /\ cctx[r] = "live" /\ ran[r] = h.d /\ pc[r] # "cUnwind" => ENABLED DeadlineFires(r)
        \* the renderer is killed under that context, and under no other
        /\ ENABLED ProcKill(r) <=> proc[r] = "running" /\ RendererCtxDone(r)

\* the steps by which the renderer's context gets done by a deadline
C19_DeadlineStep ==
    \A r \in Reqs :
        InConvert(r) /\ ~RendererCtxDone(r) /\ RendererCtxDone(r)' /\ pc'[r] # "cUnwind" =>
            \/ ctx[r] = "live" /\ ctx'[r] # "live"
            \/ h.d > 0 /\ ran[r] = h.d /\ cctx'[r] = "deadline"

(* C19: the renderer's deadline is the earlier of the caller's deadline and
   the moment of the permit plus the max-duration; with a max-duration of
   zero the caller's deadline alone governs, and with no caller's deadline
   either the renderer runs with no deadline. *)
C19_EffectiveDeadline == []C19_DeadlineState /\ [][C19_DeadlineStep]_vars

\* with a max-duration configured, the caller's deadline came first: the
\* renderer was killed before its max-duration had gone by
C19_Witness ==
    \E r \in Reqs :
        /\ h.d > 0 /\ pc[r] = "cCheck" /\ proc[r] = "killed"
        /\ ctx[r] = "deadline" /\ cctx[r] = "deadline" /\ ran[r] < h.d

\* r has been received and buffering's ServeHTTP has not returned for it
Unfinished(r) == pc[r] \notin {"new", "done"}

\* r is between the acquisition of its disk slot and the return of the
\* downstream handler
SpoolingOrDownstream(r) ==
    pc[r] \in {"tempfile", "copy", "probe", "handoff", "stub", "hServe",
               "cGate", "cStart", "cRun", "cCheck", "cUnwind", "hReply"}

\* r can take a step of its own, its renderer ending among them
CanStep(r) == ENABLED (Progress(r) \/ ProcExit(r))

(* C20: a request stored on disk keeps its disk slot through the whole
   downstream call, also while it waits for a conversion permit; a slot is
   always taken before a permit and a permit holder never waits for a slot;
   so the two gates together never deadlock: whenever some request is
   unfinished, some unfinished request can take a step (a running renderer
   ending or being killed counted as one). *)
C20_NoDeadlock ==
    /\ \A r \in Reqs :
          /\ sAcq[r] = 1 /\ SpoolingOrDownstream(r) => HoldsSlot(r)
          /\ HoldsPermit(r) =>
                /\ pc[r] # "waitSlot"
                /\ DiskRequest(r) /\ bh.gateCap > 0 => HoldsSlot(r)
          /\ pc[r] = "waitSlot" => ~HoldsPermit(r) /\ ~HoldsSlot(r)
    /\ (\E r \in Reqs : Unfinished(r)) => \E r \in Reqs : Unfinished(r) /\ CanStep(r)

\* a request holding the only disk slot waits at the full conversion gate,
\* and cannot move; the permit holder, with no slot, can
C20_Witness ==
    \E r, o \in Reqs :
        /\ r # o /\ bh.gateCap > 0 /\ fileGate = bh.gateCap /\ convGate = h.gateCap
        /\ HoldsSlot(r) /\ pc[r] = "cGate" /\ ctx[r] = "live" /\ ~CanStep(r)
        /\ HoldsPermit(o) /\ ~HoldsSlot(o) /\ proc[o] = "running" /\ CanStep(o)

====
